---- MODULE Spec2Model ----
(***************************************************************************)
(* machina/models/fields.py: the MarkupTextField (raw markup plus cached   *)
(* rendered text, re-rendered by a pre-save hook) and the                  *)
(* ExtendedImageField (upload validation and resizing).                    *)
(*                                                                         *)
(* Text is a sequence of one-character strings wrapped in a record, so     *)
(* that Python's None, False and str values can be compared with each      *)
(* other.                                                                  *)
(***************************************************************************)
EXTENDS Integers, Sequences, FiniteSets, TLC

VARIABLES
    setting,      \* machina_settings.MACHINA_MARKUP_LANGUAGE
    module,       \* outcome of importing machina.models.fields (lines 33-41)
    raw,          \* instance.__dict__[field.name], per model instance
    rendered,     \* instance._<name>_rendered, per model instance
    held,         \* instances for which the program holds a MarkupText wrapper
    lastOp,       \* the field operation performed by the last step
    field,        \* the ExtendedImageField's constructor arguments
    call          \* the last ExtendedImageField call, its input and its outcome

vars == <<setting, module, raw, rendered, held, lastOp, field, call>>

markupVars == <<setting, module, raw, rendered, held, lastOp>>

imageVars == <<field, call>>

-----------------------------------------------------------------------------
(* Bounds of the model *)

MaxRawLen == 1     \* longest raw markup text assigned to a field
MaxDim == 2        \* largest min_/max_ width and height; images reach MaxDim + 1
MaxSize == 2       \* largest max_upload_size; uploads reach MaxSize + 1 bytes
MaxBox == 2        \* largest resize box side
MaxNameLen == 3    \* longest uploaded file name

-----------------------------------------------------------------------------
(* Python values *)

None == [kind |-> "NoneType"]

False == [kind |-> "bool"]

Str(s) == [kind |-> "str", chars |-> s]

SeqsUpTo(S, n) == UNION {[1..k -> S] : k \in 0..n}

\* str(None), as mark_safe computes it for a value that is no string
StrOfNone == <<"N", "o", "n", "e">>

-----------------------------------------------------------------------------
(* The render functions a MACHINA_MARKUP_LANGUAGE setting can name *)

Instances == {"x", "y"}

Alphabet == {"a", "*"}

Texts == {Str(s) : s \in SeqsUpTo(Alphabet, MaxRawLen)}

\* the importable modules and the callables each holds
Modules == [p \in {<<"renderers">>} |-> {"markup", "upper"}]

KwargsSet == {[strip |-> TRUE], [strip |-> FALSE]}

DottedPaths ==
    { <<"markup">>,                   \* no dot at all
      <<"renderers", "markup">>,
      <<"renderers", "upper">>,
      <<"renderers", "bbcode">>,      \* module imports, attribute is absent
      <<"nomodule", "markup">> }      \* module does not import

Missing == [kind |-> "missing"]

Settings ==
    {Missing} \cup
    {[kind |-> "tuple", dotted_path |-> p, kwargs |-> k] : p \in DottedPaths, k \in KwargsSet}

\* renderers.markup(text, strip): an asterisk becomes a tag, or is dropped
MarkupChar(c, strip) ==
    IF c = "*" THEN (IF strip THEN <<>> ELSE <<"<", "b", ">">>) ELSE <<c>>

\* renderers.upper(text, strip): letters are upper-cased, asterisks dropped on request
UpperChar(c, strip) ==
    IF c = "*" THEN (IF strip THEN <<>> ELSE <<c>>) ELSE <<"A">>

RenderChar(func, c, strip) ==
    IF func = "markup" THEN MarkupChar(c, strip) ELSE UpperChar(c, strip)

RECURSIVE RenderChars(_, _, _)
RenderChars(func, s, strip) ==
    IF s = <<>> THEN <<>>
    ELSE RenderChar(func, Head(s), strip) \o RenderChars(func, Tail(s), strip)

\* func(text, **kwargs)
CallFunc(func, text, kwargs) == Str(RenderChars(func, text.chars, kwargs.strip))

-----------------------------------------------------------------------------
(* Module import: lines 27-41 *)

Raise(e) == [status |-> "raised", exc |-> e]

Return(v) == [status |-> "returned", value |-> v]

\* dotted_path.rsplit('.', 1): one part when the path has no dot
rsplit(p) ==
    IF Len(p) = 1 THEN <<p>> ELSE <<SubSeq(p, 1, Len(p) - 1), p[Len(p)]>>

\* curry(func, **kwargs)
curry(func, kwargs) == [func |-> func, kwargs |-> kwargs]

get_render_function(dotted_path, kwargs) ==
    LET parts == rsplit(dotted_path)
    IN  IF Len(parts) # 2 THEN Raise("ValueError")
        ELSE IF parts[1] \notin DOMAIN Modules THEN Raise("ImportError")
        ELSE IF parts[2] \notin Modules[parts[1]] THEN Raise("AttributeError")
        ELSE Return(curry(parts[2], kwargs))

\* variant: only the ImportError handler is present
load_module_import_only(s) ==
    LET body == IF s = Missing THEN Raise("AttributeError")
                ELSE get_render_function(s.dotted_path, s.kwargs)
    IN  IF body.status = "returned" THEN body
        ELSE IF body.exc = "ImportError" THEN Raise("ImproperlyConfigured")
        ELSE body

\* the try block of lines 33-41 with its two handlers
load_module(s) ==
    LET body == IF s = Missing THEN Raise("AttributeError")
                ELSE get_render_function(s.dotted_path, s.kwargs)
    IN  IF body.status = "returned" THEN body
        ELSE IF body.exc \in {"ImportError", "AttributeError"}
             THEN Raise("ImproperlyConfigured")
        ELSE body

\* render_func(text), for the render_func the import bound
render_func(text) == CallFunc(module.value.func, text, module.value.kwargs)

-----------------------------------------------------------------------------
(* MarkupText and MarkupTextDescriptor: lines 44-102 *)

\* MarkupText(instance, field_name, rendered_field_name): a reference to the instance
MarkupText(i) == [kind |-> "MarkupText", instance |-> i]

\* django.utils.safestring.mark_safe: a string stays the same text, any other
\* value becomes the text of str(value)
mark_safe(v) == IF v.kind = "str" THEN v ELSE Str(StrOfNone)

get_raw(w) == raw[w.instance]

get_rendered(w) == mark_safe(rendered[w.instance])

\* MarkupText.__len__
markup_len(w) == Len(get_raw(w).chars)

descriptor_get(i) == IF raw[i] = None THEN None ELSE MarkupText(i)

\* variant: a plain assignment drops the cached rendering
descriptor_set_clearing(i, value) ==
    IF value.kind = "MarkupText"
    THEN [raw |-> get_raw(value), rendered |-> get_rendered(value)]
    ELSE [raw |-> value, rendered |-> None]

\* MarkupTextDescriptor.__set__: the new (raw, rendered) pair of the instance
descriptor_set(i, value) ==
    IF value.kind = "MarkupText"
    THEN [raw |-> get_raw(value), rendered |-> get_rendered(value)]
    ELSE [raw |-> value, rendered |-> rendered[i]]

\* MarkupTextField.get_db_prep_value
get_db_prep_value(value) ==
    IF value.kind = "MarkupText" THEN get_raw(value) ELSE value

\* variant: the hook renders only when nothing is cached yet
render_data_cached(i) ==
    LET value == descriptor_get(i)
    IN  IF value.kind = "MarkupText"
        THEN (IF rendered[i] = None THEN render_func(get_raw(value)) ELSE rendered[i])
        ELSE None

\* MarkupTextField.render_data: the value the pre-save hook stores as rendered
render_data(i) ==
    LET value == descriptor_get(i)
    IN  IF value.kind = "MarkupText" THEN render_func(get_raw(value)) ELSE None

-----------------------------------------------------------------------------
(* Actions on the markup field *)

Loaded == module.status = "returned"

Wrappers == {MarkupText(i) : i \in held}

NoOp == [op |-> "none"]

\* importing machina.models.fields
LoadModule ==
    /\ module.status = "unloaded"
    /\ module' = load_module(setting)
    /\ UNCHANGED <<setting, raw, rendered, held, lastOp, imageVars>>

\* w = instance.field
Get(i) ==
    /\ Loaded
    /\ LET result == descriptor_get(i)
       IN  /\ held' = IF result = None THEN held ELSE held \cup {i}
           /\ lastOp' = [op |-> "get", inst |-> i, src |-> i, wrapper |-> result # None]
    /\ UNCHANGED <<setting, module, raw, rendered, imageVars>>

\* instance.field = value
Assign(i, value) ==
    /\ Loaded
    /\ LET new == descriptor_set(i, value)
       IN  /\ raw' = [raw EXCEPT ![i] = new.raw]
           /\ rendered' = [rendered EXCEPT ![i] = new.rendered]
    /\ lastOp' = [op |-> "set", inst |-> i,
                  src |-> IF value.kind = "MarkupText" THEN value.instance ELSE i,
                  wrapper |-> value.kind = "MarkupText"]
    /\ UNCHANGED <<setting, module, held, imageVars>>

\* w.raw = value: MarkupText._set_raw calls setattr(instance, field_name, value)
SetRaw(w, value) ==
    /\ Loaded
    /\ LET i == w.instance
           new == descriptor_set(i, value)
       IN  /\ raw' = [raw EXCEPT ![i] = new.raw]
           /\ rendered' = [rendered EXCEPT ![i] = new.rendered]
           /\ lastOp' = [op |-> "set_raw", inst |-> i,
                         src |-> IF value.kind = "MarkupText" THEN value.instance ELSE i,
                         wrapper |-> value.kind = "MarkupText"]
    /\ UNCHANGED <<setting, module, held, imageVars>>

\* instance.save(): the pre_save signal runs render_data, then the row is written
Save(i) ==
    /\ Loaded
    /\ rendered' = [rendered EXCEPT ![i] = render_data(i)]
    /\ lastOp' = [op |-> "save", inst |-> i, src |-> i, wrapper |-> FALSE,
                  row |-> [raw |-> get_db_prep_value(descriptor_get(i)),
                           rendered |-> render_data(i)]]
    /\ UNCHANGED <<setting, module, raw, held, imageVars>>

-----------------------------------------------------------------------------
(* ExtendedImageField: lines 152-221 *)

PyInt(n) == [kind |-> "int", val |-> n]

\* Python truth value of a constructor argument or of the form data
Truthy(v) ==
    CASE v.kind = "NoneType" -> FALSE
      [] v.kind = "bool" -> FALSE
      [] v.kind = "int" -> v.val # 0
      [] v.kind = "File" -> v.name.chars # <<>>
      [] OTHER -> TRUE

NameAlphabet == {"a", ".", "/"}

Names == {Str(s) : s \in SeqsUpTo(NameAlphabet, MaxNameLen)}

Formats == {"JPEG", "PNG"}

Images == [width : 1..(MaxDim + 1), height : 1..(MaxDim + 1), format : Formats]

File(name, image) == [kind |-> "File", name |-> name, image |-> image]

\* what a form hands to save_form_data: nothing, the "clear" marker, or a file
FormData == {None, False} \cup {File(n, im) : n \in Names, im \in Images}

\* what clean receives: whether the parent's clean accepts it, whether its
\* file object has a size attribute, its byte size and its pixel dimensions
Uploads ==
    [parent_ok : {TRUE}, has_size : BOOLEAN, size : 0..(MaxSize + 1),
     width : 1..(MaxDim + 1), height : 1..(MaxDim + 1)]
    \cup
    [parent_ok : {FALSE}, has_size : {TRUE}, size : {0}, width : {1}, height : {1}]

\* min_/max_ arguments: left out, or a pixel count
LimitValues == {None} \cup {PyInt(n) : n \in 0..MaxDim}

\* width/height arguments: left out, or the side of a box
BoxValues == {None} \cup {PyInt(n) : n \in 1..MaxBox}

\* last index of character c in s, 0 when absent (str.rfind, one-based)
rfind(s, c) ==
    LET hits == {k \in 1..Len(s) : s[k] = c}
    IN  IF hits = {} THEN 0 ELSE CHOOSE k \in hits : \A j \in hits : j <= k

\* os.path.split(p)[-1]: what follows the last slash
path_split_tail(p) == SubSeq(p, rfind(p, "/") + 1, Len(p))

\* os.path.splitext(p)[0]: p without its extension; leading dots are no extension
path_splitext_root(p) ==
    LET sepIndex == rfind(p, "/")
        dotIndex == rfind(p, ".")
    IN  IF /\ dotIndex > sepIndex
           /\ \E k \in (sepIndex + 1)..(dotIndex - 1) : p[k] # "."
        THEN SubSeq(p, 1, dotIndex - 1)
        ELSE p

Max(a, b) == IF a >= b THEN a ELSE b

\* PIL Image.thumbnail(size): shrink, keeping the aspect ratio, never enlarge
thumbnail(image, size) ==
    LET x0 == image.width
        y0 == image.height
        y1 == IF x0 > size[1] THEN Max((y0 * size[1]) \div x0, 1) ELSE y0
        x1 == IF x0 > size[1] THEN size[1] ELSE x0
        x2 == IF y1 > size[2] THEN Max((x1 * size[2]) \div y1, 1) ELSE x1
        y2 == IF y1 > size[2] THEN size[2] ELSE y1
    IN  [image EXCEPT !.width = x2, !.height = y2]

\* variant: the image is converted but not shrunk
resize_image_no_thumbnail(data, size) == [data EXCEPT !.format = "PNG"]

\* ExtendedImageField.resize_image: open, thumbnail, save as PNG
resize_image(data, size) == [thumbnail(data, size) EXCEPT !.format = "PNG"]

\* the file save_form_data hands to ImageField.save_form_data
save_form_data(f, data) ==
    IF Truthy(data) /\ Truthy(f.width) /\ Truthy(f.height)
    THEN LET content == resize_image(data.image, <<f.width.val, f.height.val>>)
             filename == path_splitext_root(path_split_tail(data.name.chars))
         IN  File(Str(filename \o <<".", "p", "n", "g">>), content)
    ELSE data

\* variant: a file of exactly max_upload_size bytes is refused
clean_size_ge(f, data) ==
    IF ~data.parent_ok THEN Raise("parent")
    ELSE IF /\ Truthy(PyInt(f.max_upload_size))
            /\ data.has_size
            /\ data.size >= f.max_upload_size
         THEN Raise("size")
    ELSE IF /\ Truthy(f.min_width)
            /\ Truthy(f.max_width)
            /\ ~(f.min_width.val <= data.width /\ data.width <= f.max_width.val)
         THEN Raise("width")
    ELSE IF /\ Truthy(f.min_height)
            /\ Truthy(f.max_height)
            /\ ~(f.min_height.val <= data.height /\ data.height <= f.max_height.val)
         THEN Raise("height")
    ELSE Return(data)

\* ExtendedImageField.clean: the ValidationError raised, or the data returned
clean(f, data) ==
    IF ~data.parent_ok THEN Raise("parent")
    ELSE IF /\ Truthy(PyInt(f.max_upload_size))
            /\ data.has_size
            /\ data.size > f.max_upload_size
         THEN Raise("size")
    ELSE IF /\ Truthy(f.min_width)
            /\ Truthy(f.max_width)
            /\ ~(f.min_width.val <= data.width /\ data.width <= f.max_width.val)
         THEN Raise("width")
    ELSE IF /\ Truthy(f.min_height)
            /\ Truthy(f.max_height)
            /\ ~(f.min_height.val <= data.height /\ data.height <= f.max_height.val)
         THEN Raise("height")
    ELSE Return(data)

\* ExtendedImageField(**kwargs)
ExtendedImageField(w, h, minw, maxw, minh, maxh, maxsize) ==
    [width |-> w, height |-> h, min_width |-> minw, max_width |-> maxw,
     min_height |-> minh, max_height |-> maxh, max_upload_size |-> maxsize]

\* fields declared with validation limits (no resize box)
LimitFields ==
    {ExtendedImageField(None, None, a, b, c, d, m) :
        a \in LimitValues, b \in LimitValues, c \in LimitValues, d \in LimitValues,
        m \in 0..MaxSize}

\* fields declared with a resize box (no validation limits)
BoxFields ==
    {ExtendedImageField(w, h, None, None, None, None, 0) :
        w \in BoxValues, h \in BoxValues}

DefaultField == ExtendedImageField(None, None, None, None, None, None, 0)

NoCall == [op |-> "none"]

Init ==
    /\ setting \in Settings
    /\ module = [status |-> "unloaded"]
    /\ raw = [i \in Instances |-> Str(<<>>)]
    /\ rendered = [i \in Instances |-> None]
    /\ held = {}
    /\ lastOp = NoOp
    /\ field = DefaultField
    /\ call = NoCall

Next ==
    \/ LoadModule
    \/ \E i \in Instances : Get(i)
    \/ \E i \in Instances, v \in Texts \cup {None} \cup Wrappers : Assign(i, v)
    \/ \E w \in Wrappers, v \in Texts \cup {None} \cup Wrappers : SetRaw(w, v)
    \/ \E i \in Instances : Save(i)

Spec == Init /\ [][Next]_vars

\* form validation of an upload
Clean(data) ==
    /\ call = NoCall
    /\ call' = [op |-> "clean", data |-> data, outcome |-> clean(field, data)]
    /\ UNCHANGED <<field, markupVars>>

\* form.save() on the model form
SaveFormData(data) ==
    /\ call = NoCall
    /\ call' = [op |-> "save_form_data", data |-> data,
                handed |-> save_form_data(field, data)]
    /\ UNCHANGED <<field, markupVars>>

\* the call returns to the framework; the field serves the next request
EndCall ==
    /\ call # NoCall
    /\ call' = NoCall
    /\ UNCHANGED <<field, markupVars>>

DefaultSetting ==
    [kind |-> "tuple", dotted_path |-> <<"renderers", "markup">>,
     kwargs |-> [strip |-> FALSE]]

InitImage(fields) ==
    /\ setting = DefaultSetting
    /\ module = load_module(setting)
    /\ raw = [i \in Instances |-> Str(<<>>)]
    /\ rendered = [i \in Instances |-> None]
    /\ held = {}
    /\ lastOp = NoOp
    /\ field \in fields
    /\ call = NoCall

InitClean == InitImage(LimitFields)

NextClean ==
    \/ \E data \in Uploads : Clean(data)
    \/ EndCall

\* form validation by a field declared with limits
SpecClean == InitClean /\ [][NextClean]_vars

InitResize == InitImage(BoxFields)

NextResize ==
    \/ \E data \in FormData : SaveFormData(data)
    \/ EndCall

\* saving form data through a field declared with a resize box
SpecResize == InitResize /\ [][NextResize]_vars

-----------------------------------------------------------------------------
(* Properties *)

\* C1: a save persists the raw value the instance holds at the save, together
\* with the configured render function applied to that raw value, or None when
\* the raw value is None; the rendering never comes from an earlier raw value.
SavePersistsFreshRendering ==
    lastOp.op = "save" =>
        LET func == setting.dotted_path[Len(setting.dotted_path)]
            row == lastOp.row
        IN  /\ row.raw = raw[lastOp.inst]
            /\ row.rendered = rendered[lastOp.inst]
            /\ row.rendered = IF row.raw = None THEN None
                              ELSE CallFunc(func, row.raw, setting.kwargs)

\* a save of a wrapped instance whose asterisk was rendered to something else
SaveOfMarkupReached ==
    /\ lastOp.op = "save"
    /\ lastOp.inst \in held
    /\ lastOp.row.raw = Str(<<"*">>)
    /\ lastOp.row.rendered # Str(<<"*">>)

SizeLimitEnforced ==
    (call.op = "clean" /\ call.data.parent_ok) =>
        LET max == field.max_upload_size
            d == call.data
        IN  /\ (max # 0 /\ d.has_size /\ d.size > max) => call.outcome = Raise("size")
            /\ (max = 0 \/ d.size <= max) => call.outcome # Raise("size")

\* an oversized file that is also too wide was refused for its size
OversizedAndTooWideReached ==
    /\ call.op = "clean"
    /\ call.outcome = Raise("size")
    /\ field.min_width # None /\ field.min_width.val > 0
    /\ field.max_width # None /\ field.max_width.val > 0
    /\ call.data.width > field.max_width.val

\* C4: with both bounds of a dimension provided, clean raises for every image
\* outside the range and returns the data for every image inside; a dimension
\* with only one bound is not checked.
DimensionLimitsEnforced ==
    (call.op = "clean" /\ call.data.parent_ok /\ call.outcome # Raise("size")) =>
        LET d == call.data
            wOut == /\ field.min_width # None
                    /\ field.max_width # None
                    /\ ~(field.min_width.val <= d.width /\ d.width <= field.max_width.val)
            hOut == /\ field.min_height # None
                    /\ field.max_height # None
                    /\ ~(field.min_height.val <= d.height /\ d.height <= field.max_height.val)
        IN  IF wOut \/ hOut THEN call.outcome.status = "raised"
            ELSE call.outcome = Return(d)

\* C5: with width and height configured and data present, the parent receives a
\* PNG that fits the box and is named after the upload's base name with the
\* extension replaced by .png; otherwise it receives the data unchanged.
ResizedUploadIsBoxedPng ==
    call.op = "save_form_data" =>
        LET data == call.data
            out == call.handed
            configured == field.width # None /\ field.height # None
            present == data \notin {None, False} /\ data.name.chars # <<>>
        IN  IF configured /\ present
            THEN LET nm == data.name.chars
                     n == out.name.chars
                     k == Len(n) - 4
                 IN  /\ out.kind = "File"
                     /\ out.image.format = "PNG"
                     /\ out.image.width <= field.width.val
                     /\ out.image.height <= field.height.val
                     /\ k >= 0
                     /\ SubSeq(n, k + 1, Len(n)) = <<".", "p", "n", "g">>
                     /\ \A j \in 1..k : n[j] # "/"
                     /\ \E dir \in 0..Len(nm) :
                            /\ dir = 0 \/ nm[dir] = "/"
                            /\ dir + k <= Len(nm)
                            /\ SubSeq(nm, dir + 1, dir + k) = SubSeq(n, 1, k)
                            /\ \/ dir + k = Len(nm)
                               \/ /\ nm[dir + k + 1] = "."
                                  /\ \A j \in (dir + k + 2)..Len(nm) : nm[j] \notin {".", "/"}
            ELSE out = data

\* an upload inside a directory with an extension was shrunk and renamed
ShrunkAndRenamedReached ==
    /\ call.op = "save_form_data"
    /\ call.data \notin {None, False}
    /\ call.data.name.chars = <<"/", "a", ".">>
    /\ call.handed.image.width < call.data.image.width
    /\ call.handed.image.height < call.data.image.height

\* C6: a read returns None exactly when the stored raw value is None, and a
\* wrapper, whenever looked at, shows the instance's stored raw and stored
\* rendered values.
WrapperShowsStoredValues ==
    /\ lastOp.op = "get" => (~lastOp.wrapper <=> raw[lastOp.inst] = None)
    /\ \A i \in held :
        /\ get_raw(MarkupText(i)) = raw[i]
        /\ get_rendered(MarkupText(i)) = rendered[i]

\* C7: assigning a value that is no MarkupText, directly or through wrapper.raw,
\* leaves every rendered value, and every other instance's raw value, as it was.
PlainAssignKeepsRendered ==
    [][(lastOp'.op \in {"set", "set_raw"} /\ ~lastOp'.wrapper) =>
            /\ rendered' = rendered
            /\ \A j \in Instances \ {lastOp'.inst} : raw'[j] = raw[j]]_vars

\* after a plain assignment the instance still carries a rendering that is not
\* the rendering of its new raw value
StaleRenderingReached ==
    /\ lastOp.op \in {"set", "set_raw"}
    /\ ~lastOp.wrapper
    /\ raw[lastOp.inst] # None
    /\ rendered[lastOp.inst] # None
    /\ rendered[lastOp.inst] # render_func(raw[lastOp.inst])

\* C8: assigning a wrapper copies the source's raw and rendered values as they
\* were at the assignment; assigning an instance's own wrapper changes nothing.
WrapperAssignCopiesBoth ==
    [][(lastOp'.op \in {"set", "set_raw"} /\ lastOp'.wrapper) =>
            /\ raw'[lastOp'.inst] = raw[lastOp'.src]
            /\ rendered'[lastOp'.inst] = rendered[lastOp'.src]
            /\ lastOp'.src = lastOp'.inst => (raw' = raw /\ rendered' = rendered)]_vars

\* C9: the length of a wrapper is the length of the rendered string, so the
\* wrapper is true exactly when the rendered content is non-empty (looked at
\* right after a save, when the rendered string is the rendering of raw).
LenIsRenderedLength ==
    (lastOp.op = "save" /\ lastOp.inst \in held /\ raw[lastOp.inst] # None) =>
        LET w == MarkupText(lastOp.inst)
        IN  /\ markup_len(w) = Len(get_rendered(w).chars)
            /\ (markup_len(w) > 0) <=> (get_rendered(w).chars # <<>>)

====
